---------------------------- MODULE Spec2Model ----------------------------
(***************************************************************************)
(* The two provider adapters of metagpt/provider:                          *)
(*   GitHubLLM        (github_api.py)          a scoped SydneyClient call  *)
(*   GitHubCopilotLLM (github_copilot_api.py)  a LiteLLM acompletion call  *)
(*                                                                         *)
(* Python strings that the code slices or searches (model identifiers)     *)
(* are sequences of one-character strings; strings that are only           *)
(* concatenated (message contents, stream fragments) are TLA+ strings.     *)
(* Floats are integers in tenths (top_p 1.0 is 10).                        *)
(***************************************************************************)
EXTENDS Integers, Sequences, FiniteSets, TLC

VARIABLES
    config,        \* the LLMConfig object shared by framework and adapters
    supplied,      \* history: the LLMConfig as the framework created it
    copilot,       \* the GitHubCopilotLLM instance (or its failed construction)
    github,        \* the GitHubLLM instance
    call,          \* the adapter call in progress: its frame and position
    kwargs,        \* the last payload _cons_kwargs returned
    acompletionCalls, \* litellm.acompletion invocations of the current call
    askCalls,      \* prompts handed to SydneyClient.ask / ask_stream
    sessions,      \* SydneyClient sessions: opened so far, open now
    logs,          \* records written through logger
    sink,          \* fragments handed to log_llm_stream
    costArgs       \* the usage arguments handed to _update_costs

vars == <<config, supplied, copilot, github, call, kwargs, acompletionCalls,
          askCalls, sessions, logs, sink, costArgs>>

---------------------------------------------------------------------------
(* Bounds of the model *)

MaxPrefixes == 2
MaxChunks == 3
MaxMsgs == 2

---------------------------------------------------------------------------
(* Strings *)

Prefix == <<"g","i","t","h","u","b","_","c","o","p","i","l","o","t","/">>
Gpt4o == <<"g","p","t","-","4","o">>
Gpt41 == <<"g","p","t","-","4",".","1">>
Gpt5mini == <<"g","p","t","-","5","-","m","i","n","i">>
Gpt5 == <<"g","p","t","-","5">>
Gpt4 == <<"g","p","t","-","4">>
NotAModel == <<"n","o","t","-","a","-","m","o","d","e","l">>
GptDash == <<"g","p","t","-">>
FourO == <<"4","o">>

\* str.startswith
StartsWith(s, p) ==
    /\ Len(s) >= Len(p)
    /\ SubSeq(s, 1, Len(p)) = p

\* str.replace(old, new): every non-overlapping occurrence, left to right
RECURSIVE Replace(_, _, _)
Replace(s, old, new) ==
    IF Len(s) = 0 THEN s
    ELSE IF StartsWith(s, old)
         THEN new \o Replace(SubSeq(s, Len(old) + 1, Len(s)), old, new)
         ELSE <<Head(s)>> \o Replace(Tail(s), old, new)

\* x in list
InList(x, list) == \E i \in 1..Len(list) : list[i] = x

RECURSIVE Repeat(_, _)
Repeat(s, k) == IF k = 0 THEN <<>> ELSE s \o Repeat(s, k - 1)

---------------------------------------------------------------------------
(* The LLMConfig object *)

\* Model strings a framework may configure: a supported or unsupported bare
\* name, each under zero or more provider prefixes.
BareNames == {<<>>, Gpt4o, Gpt41, Gpt5mini, Gpt5, Gpt4, NotAModel,
              GptDash \o Prefix \o FourO}

ModelInputs == {Repeat(Prefix, k) \o n : k \in 0..MaxPrefixes, n \in BareNames}

\* The fields of LLMConfig the adapters read
MkConfig(api_type, model, pricing_plan, calc_usage, top_p, fp, pp, stop) ==
    [api_type |-> api_type, model |-> model, pricing_plan |-> pricing_plan, calc_usage |-> calc_usage,
     top_p |-> top_p, frequency_penalty |-> fp, presence_penalty |-> pp,
     stop |-> stop, max_token |-> 4, temperature |-> 0, timeout |-> 600]

\* Configurations with every model string and every sampling choice
BroadConfigs ==
    {MkConfig("github_copilot", m, <<>>, TRUE, tp, fp, pp, st) :
        m \in ModelInputs, tp \in {5, 10}, fp \in {0, 2}, pp \in {0, 3},
        st \in {"", "END"}}

\* Configurations with neutral sampling parameters
PlainConfigs ==
    {MkConfig(t, m, <<>>, cu, 10, 0, 0, "") :
        t \in {"github", "github_copilot"},
        m \in {Gpt4o, Prefix \o Gpt4o, NotAModel}, cu \in BOOLEAN}

---------------------------------------------------------------------------
(* GitHubCopilotLLM: construction *)

supported_models == <<Gpt4o, Gpt41, Gpt5mini, Gpt5>>

\* _normalize_model_name
NormalizeModelName(model_name) ==
    IF StartsWith(model_name, Prefix)
    THEN SubSeq(model_name, Len(Prefix) + 1, Len(model_name))
    ELSE model_name

\* _init_client, the config it leaves behind: config.model is assigned in the
\* first two branches, in the second one only after the validation passed.
ConfigAfterInitEager(cfg) ==
    IF Len(cfg.model) = 0
    THEN [cfg EXCEPT !.model = Prefix \o Gpt4o]
    ELSE IF ~StartsWith(cfg.model, Prefix)
         THEN [cfg EXCEPT !.model = Prefix \o cfg.model]
         ELSE cfg

ConfigAfterInit(cfg) ==
    IF Len(cfg.model) = 0
    THEN [cfg EXCEPT !.model = Prefix \o Gpt4o]
    ELSE IF ~StartsWith(cfg.model, Prefix)
         THEN IF ~InList(cfg.model, supported_models)
              THEN cfg
              ELSE [cfg EXCEPT !.model = Prefix \o cfg.model]
         ELSE cfg

\* _init_client, whether it raises ValueError
InitClientRaises(cfg) ==
    IF Len(cfg.model) = 0 THEN FALSE
    ELSE IF ~StartsWith(cfg.model, Prefix)
         THEN ~InList(cfg.model, supported_models)
         ELSE ~InList(Replace(cfg.model, Prefix, <<>>), supported_models)

NoCopilot ==
    [status |-> "none", model |-> <<>>, pricing_plan |-> <<>>,
     cost_manager |-> "None"]

\* The module was imported with litellm installed
LITELLM_AVAILABLE == TRUE

\* GitHubCopilotLLM.__init__: self.config, _init_client, self.cost_manager
CopilotInstance(cfg) ==
    IF ~LITELLM_AVAILABLE
    THEN [NoCopilot EXCEPT !.status = "ImportError"]
    ELSE IF InitClientRaises(cfg)
    THEN [NoCopilot EXCEPT !.status = "ValueError"]
    ELSE LET c == ConfigAfterInit(cfg)
         IN  [status |-> "ready", model |-> c.model,
              pricing_plan |-> IF Len(c.pricing_plan) > 0 THEN c.pricing_plan
                               ELSE c.model,
              cost_manager |-> "None"]

---------------------------------------------------------------------------
(* GitHubCopilotLLM: the payload *)

USE_CONFIG_TIMEOUT == 0

\* BaseLLM.get_timeout
GetTimeout(cfg, timeout) == IF timeout # USE_CONFIG_TIMEOUT THEN timeout ELSE cfg.timeout

\* metagpt.utils.token_counter.TOKEN_MAX, in thousands of tokens
TOKEN_MAX == [m \in {Prefix \o Gpt4o, Prefix \o Gpt5} |-> 128]

\* _get_max_tokens
GetMaxTokens(self, cfg) ==
    IF self.model \in DOMAIN TOKEN_MAX THEN TOKEN_MAX[self.model] ELSE cfg.max_token

ExtraHeaders ==
    [Editor_Version |-> "vscode/1.85.0", Copilot_Integration_Id |-> "vscode-chat"]

EmptyDict == [k \in {} |-> TRUE]

\* dict.update
Update(d, e) ==
    [k \in DOMAIN d \cup DOMAIN e |-> IF k \in DOMAIN e THEN e[k] ELSE d[k]]

\* The keys _cons_kwargs sets before extra_kwargs are merged
KwargKeysAlwaysTopP(cfg) ==
    {"model", "messages", "max_tokens", "temperature", "timeout", "extra_headers",
     "top_p"}
    \cup (IF cfg.frequency_penalty # 0 THEN {"frequency_penalty"} ELSE {})
    \cup (IF cfg.presence_penalty # 0 THEN {"presence_penalty"} ELSE {})
    \cup (IF cfg.stop # "" THEN {"stop"} ELSE {})

KwargKeys(cfg) ==
    {"model", "messages", "max_tokens", "temperature", "timeout", "extra_headers"}
    \cup (IF cfg.top_p # 10 THEN {"top_p"} ELSE {})
    \cup (IF cfg.frequency_penalty # 0 THEN {"frequency_penalty"} ELSE {})
    \cup (IF cfg.presence_penalty # 0 THEN {"presence_penalty"} ELSE {})
    \cup (IF cfg.stop # "" THEN {"stop"} ELSE {})

\* _cons_kwargs
ConsKwargs(self, cfg, messages, timeout, extra_kwargs) ==
    Update([k \in KwargKeys(cfg) |->
               CASE k = "model" -> self.model
                 [] k = "messages" -> messages
                 [] k = "max_tokens" -> GetMaxTokens(self, cfg)
                 [] k = "temperature" -> cfg.temperature
                 [] k = "timeout" -> GetTimeout(cfg, timeout)
                 [] k = "extra_headers" -> ExtraHeaders
                 [] k = "top_p" -> cfg.top_p
                 [] k = "frequency_penalty" -> cfg.frequency_penalty
                 [] k = "presence_penalty" -> cfg.presence_penalty
                 [] k = "stop" -> cfg.stop],
           extra_kwargs)


\* Keyword overrides a caller of _cons_kwargs passes
Extras == {EmptyDict, [stream |-> TRUE], [top_p |-> 3]}

NoKwargs == [extra_kwargs |-> EmptyDict, payload |-> EmptyDict]

---------------------------------------------------------------------------
(* Messages *)

Msgs ==
    {[role |-> "system", content |-> "Be brief"],
     [role |-> "user", content |-> "Hello, world!"],
     [role |-> "user", content |-> "Hi"]}

RECURSIVE SeqsUpTo(_, _)
SeqsUpTo(S, n) ==
    IF n = 0 THEN {<<>>}
    ELSE LET shorter == SeqsUpTo(S, n - 1)
         IN  shorter \cup {Append(q, x) : q \in shorter, x \in S}

MessageSeqs == SeqsUpTo(Msgs, MaxMsgs)

---------------------------------------------------------------------------
(* State after the framework created the LLMConfig *)

Idle == [op |-> "none", pc |-> "idle"]

NoGitHub == [status |-> "none", cost_manager |-> "None"]

InitWith(cfgs) ==
    /\ config \in cfgs
    /\ supplied = config
    /\ copilot = NoCopilot
    /\ github = NoGitHub
    /\ call = Idle
    /\ kwargs = NoKwargs
    /\ acompletionCalls = 0
    /\ askCalls = <<>>
    /\ sessions = 0
    /\ logs = <<>>
    /\ sink = <<>>
    /\ costArgs = <<>>

\* The registry's constructor for LLMType.GITHUB_COPILOT: GitHubCopilotLLM(config)
ConstructCopilot ==
    /\ call.pc = "idle"
    /\ config.api_type = "github_copilot"
    /\ copilot' = CopilotInstance(config)
    /\ config' = IF LITELLM_AVAILABLE THEN ConfigAfterInit(config) ELSE config
    /\ UNCHANGED <<supplied, github, call, kwargs, acompletionCalls, askCalls,
                   sessions, logs, sink, costArgs>>

\* llm._cons_kwargs(messages, timeout, **extra_kwargs)
BuildPayload ==
    /\ call.pc = "idle"
    /\ copilot.status = "ready"
    /\ kwargs = NoKwargs
    /\ \E messages \in MessageSeqs, timeout \in {USE_CONFIG_TIMEOUT, 30},
          extra_kwargs \in Extras :
          kwargs' = [extra_kwargs |-> extra_kwargs,
                     payload |-> ConsKwargs(copilot, config, messages, timeout,
                                            extra_kwargs)]
    /\ call' = [op |-> "cons_kwargs", pc |-> "done"]
    /\ UNCHANGED <<config, supplied, copilot, github, acompletionCalls,
                   askCalls, sessions, logs, sink, costArgs>>

\* the awaiting framework code takes the outcome of the call it made
Complete ==
    /\ call.pc = "done"
    /\ call' = Idle
    /\ kwargs' = NoKwargs
    /\ acompletionCalls' = 0
    /\ askCalls' = <<>>
    /\ logs' = <<>>
    /\ sink' = <<>>
    /\ costArgs' = <<>>
    /\ UNCHANGED <<config, supplied, copilot, github, sessions>>

InitConfig == InitWith(BroadConfigs)

NextConfig == ConstructCopilot \/ BuildPayload \/ Complete

\* Construction and payload assembly over every configuration
SpecConfig == InitConfig /\ [][NextConfig]_vars

---------------------------------------------------------------------------
(* Model resolution *)

InAllowList(m) == m \in {Gpt4o, Gpt41, Gpt5mini, Gpt5}

\* C1: construction resolves the model: empty gives github_copilot/gpt-4o;
\* an unprefixed m succeeds exactly when m is in the allow-list and resolves
\* to the prefix plus m; a prefixed m succeeds exactly when m with the prefix
\* stripped is in the allow-list and resolves to m; otherwise ValueError.
\* After success the resolved id with its prefix stripped is in the allow-list.
C1_ModelResolution ==
    copilot.status # "none" =>
        LET m == supplied.model
        IN  /\ Len(m) = 0 =>
                copilot.status = "ready" /\ copilot.model = Prefix \o Gpt4o
            /\ (Len(m) > 0 /\ ~StartsWith(m, Prefix)) =>
                /\ copilot.status = "ready" <=> InAllowList(m)
                /\ copilot.status = "ready" => copilot.model = Prefix \o m
            /\ StartsWith(m, Prefix) =>
                /\ copilot.status = "ready" <=> InAllowList(NormalizeModelName(m))
                /\ copilot.status = "ready" => copilot.model = m
            /\ copilot.status # "ready" => copilot.status = "ValueError"
            /\ copilot.status = "ready" =>
                InAllowList(NormalizeModelName(copilot.model))

---------------------------------------------------------------------------
(* Payload assembly *)

\* C7: with no keyword overrides the payload has top_p, frequency_penalty,
\* presence_penalty and stop exactly when the configured value differs from
\* 1.0, 0.0, 0.0 and empty, each with the configured value, and always has
\* model, messages, max_tokens, temperature, timeout and extra_headers.
C7_OptionalKeys ==
    (kwargs # NoKwargs /\ kwargs.extra_kwargs = EmptyDict) =>
        LET p == kwargs.payload
            K == DOMAIN p
        IN  /\ "top_p" \in K <=> config.top_p # 10
            /\ "frequency_penalty" \in K <=> config.frequency_penalty # 0
            /\ "presence_penalty" \in K <=> config.presence_penalty # 0
            /\ "stop" \in K <=> config.stop # ""
            /\ "top_p" \in K => p["top_p"] = config.top_p
            /\ "frequency_penalty" \in K =>
                   p["frequency_penalty"] = config.frequency_penalty
            /\ "presence_penalty" \in K =>
                   p["presence_penalty"] = config.presence_penalty
            /\ "stop" \in K => p["stop"] = config.stop
            /\ {"model", "messages", "max_tokens", "temperature", "timeout",
                "extra_headers"} \subseteq K

C7_Witness ==
    /\ kwargs # NoKwargs
    /\ kwargs.extra_kwargs = EmptyDict
    /\ config.top_p # 10
    /\ config.frequency_penalty = 0
    /\ config.stop # ""
    /\ "top_p" \in DOMAIN kwargs.payload
    /\ "frequency_penalty" \notin DOMAIN kwargs.payload

---------------------------------------------------------------------------
(* GitHubCopilotLLM: what LiteLLM hands back *)

\* Python's None, and an attribute the object does not have
None == [py |-> "None"]
Missing == [py |-> "no attribute"]

Usage(p, c) == [prompt_tokens |-> p, completion_tokens |-> c, total_tokens |-> p + c]

ZeroUsage == Usage(0, 0)

\* bool(x) of a usage value
Truthy(u) == u # None /\ u # Missing /\ u # EmptyDict

Exceptions == {"TimeoutError", "AuthenticationError"}

\* A streamed chunk: choices holds each choice's delta.content ("" when the
\* delta has none), usage is a usage object or None.
Chunks ==
    {[choices |-> c, usage |-> None] : c \in {<<>>, <<"">>, <<"Hel">>, <<"lo">>}}
    \cup {[choices |-> c, usage |-> u] :
            c \in {<<>>, <<"lo">>}, u \in {Usage(5, 2), Usage(9, 4)}}

\* A one-shot response: choices holds each choice's message.content ("" for
\* None), usage may be absent from the object.
Responses ==
    {[choices |-> c, usage |-> u] :
        c \in {<<>>, <<"">>, <<"Hello">>}, u \in {Missing, None, Usage(5, 2)}}

\* What count_message_tokens / count_output_tokens do for the pricing plan
TokenCounts == {[raises |-> TRUE, prompt |-> 0, completion |-> 0],
                [raises |-> FALSE, prompt |-> 3, completion |-> 1]}

\* "".join(collected_messages)
RECURSIVE Join(_)
Join(parts) == IF Len(parts) = 0 THEN "" ELSE Head(parts) \o Join(Tail(parts))

\* get_choice_text
GetChoiceText(response) ==
    IF Len(response.choices) > 0 THEN response.choices[1] ELSE ""

\* The loop body of _achat_completion_stream: collected_messages after a chunk
CollectFirst(collected, chunk) ==
    IF Len(chunk.choices) > 0 /\ chunk.choices[1] # ""
    THEN <<chunk.choices[1]>> \o collected
    ELSE collected

Collect(collected, chunk) ==
    IF Len(chunk.choices) > 0 /\ chunk.choices[1] # ""
    THEN Append(collected, chunk.choices[1])
    ELSE collected

\* The loop body of _achat_completion_stream: what goes to log_llm_stream
Streamed(chunk) ==
    IF Len(chunk.choices) > 0 /\ chunk.choices[1] # ""
    THEN <<chunk.choices[1]>>
    ELSE <<>>

\* The loop body of _achat_completion_stream: usage after a chunk; the usage
\* check sits inside the branch taken for a chunk with choices.
UsageAfter(usage, chunk) ==
    IF Len(chunk.choices) > 0 /\ Truthy(chunk.usage) THEN chunk.usage ELSE usage

\* _calc_usage
CalcUsage(cfg, counts) ==
    IF ~cfg.calc_usage THEN ZeroUsage
    ELSE IF counts.raises THEN ZeroUsage
    ELSE Usage(counts.prompt, counts.completion)

\* _calc_usage, its logger.warning
CalcUsageLogs(cfg, counts) ==
    IF cfg.calc_usage /\ counts.raises
    THEN <<[level |-> "warning", exc |-> "token counting"]>>
    ELSE <<>>

\* BaseLLM._update_costs, its logger.error: a failing cost manager is logged
BaseUpdateCostsLogs(cfg, self, usage, costOk) ==
    IF cfg.calc_usage /\ self.cost_manager # "None" /\ Truthy(usage) /\ ~costOk
    THEN <<[level |-> "error", exc |-> "update_cost"]>>
    ELSE <<>>

\* How a call ends: a returned value, or an exception leaving it
Returns(v) == [kind |-> "return", value |-> v]

Raises(e) == [kind |-> "raise", exc |-> e]

\* except Exception as e: logger.error(...); raise
Swallow(e) == Returns("")

Reraise(e) == Raises(e)

NoResult == [kind |-> "none"]

---------------------------------------------------------------------------
(* GitHubCopilotLLM: acompletion, acompletion_text *)

CopilotMessages == SeqsUpTo(Msgs \ {[role |-> "user", content |-> "Hi"]}, 1)

\* acompletion / acompletion_text up to the await of litellm.acompletion
CopilotCall ==
    /\ call.pc = "idle"
    /\ copilot.status = "ready"
    /\ \E api \in {"acompletion", "acompletion_text"}, stream \in BOOLEAN,
          messages \in CopilotMessages :
          /\ stream => api = "acompletion_text"
          /\ kwargs' = LET extra == IF stream THEN [stream |-> TRUE] ELSE EmptyDict
                       IN  [extra_kwargs |-> extra,
                            payload |-> ConsKwargs(copilot, config, messages,
                                                   USE_CONFIG_TIMEOUT, extra)]
          /\ call' = [op |-> "copilot", pc |-> "awaiting", api |-> api,
                      stream |-> stream, messages |-> messages,
                      collected_messages |-> <<>>, usage |-> None,
                      chunks |-> <<>>, upstream |-> "ok",
                      result |-> NoResult]
    /\ acompletionCalls' = acompletionCalls + 1
    /\ UNCHANGED <<config, supplied, copilot, github, askCalls, sessions, logs,
                   sink, costArgs>>

\* litellm.acompletion raises
CopilotUpstreamFails ==
    /\ call.op = "copilot"
    /\ call.pc = "awaiting"
    /\ \E e \in Exceptions :
          /\ logs' = Append(logs, [level |-> "error", exc |-> e])
          /\ call' = [call EXCEPT !.pc = "done", !.upstream = e,
                                  !.result = Reraise(e)]
    /\ UNCHANGED <<config, supplied, copilot, github, kwargs, acompletionCalls,
                   askCalls, sessions, sink, costArgs>>

\* _achat_completion after the await: response.usage, _update_costs, return;
\* acompletion_text goes on to get_choice_text.
CopilotResponse ==
    /\ call.op = "copilot"
    /\ call.pc = "awaiting"
    /\ ~call.stream
    /\ \E response \in Responses, costOk \in BOOLEAN :
          IF response.usage = Missing
          THEN /\ logs' = Append(logs, [level |-> "error", exc |-> "AttributeError"])
               /\ call' = [call EXCEPT !.pc = "done",
                                       !.chunks = <<response>>,
                                       !.result = Reraise("AttributeError")]
               /\ UNCHANGED costArgs
          ELSE /\ costArgs' = Append(costArgs, response.usage)
               /\ logs' = logs \o BaseUpdateCostsLogs(config, copilot,
                                                      response.usage, costOk)
               /\ call' = [call EXCEPT
                             !.pc = "done",
                             !.chunks = <<response>>,
                             !.result = IF call.api = "acompletion"
                                        THEN Returns(response)
                                        ELSE Returns(GetChoiceText(response))]
    /\ UNCHANGED <<config, supplied, copilot, github, kwargs, acompletionCalls,
                   askCalls, sessions, sink>>

\* litellm.acompletion returns the chunk iterator
CopilotStreamBegins ==
    /\ call.op = "copilot"
    /\ call.pc = "awaiting"
    /\ call.stream
    /\ call' = [call EXCEPT !.pc = "streaming"]
    /\ UNCHANGED <<config, supplied, copilot, github, kwargs, acompletionCalls,
                   askCalls, sessions, logs, sink, costArgs>>

\* one turn of "async for chunk in response"
CopilotChunk ==
    /\ call.op = "copilot"
    /\ call.pc = "streaming"
    /\ Len(call.chunks) < MaxChunks
    /\ \E chunk \in Chunks :
          /\ sink' = sink \o Streamed(chunk)
          /\ call' = [call EXCEPT
                        !.chunks = Append(@, chunk),
                        !.collected_messages = Collect(@, chunk),
                        !.usage = UsageAfter(@, chunk)]
    /\ UNCHANGED <<config, supplied, copilot, github, kwargs, acompletionCalls,
                   askCalls, sessions, logs, costArgs>>

\* the chunk iterator raises
CopilotStreamFails ==
    /\ call.op = "copilot"
    /\ call.pc = "streaming"
    /\ \E e \in Exceptions :
          /\ logs' = Append(logs, [level |-> "error", exc |-> e])
          /\ call' = [call EXCEPT !.pc = "done", !.upstream = e,
                                  !.result = Reraise(e)]
    /\ UNCHANGED <<config, supplied, copilot, github, kwargs, acompletionCalls,
                   askCalls, sessions, sink, costArgs>>

\* the chunk iterator is exhausted: log_llm_stream("\n"), join, _calc_usage
\* when no usage was kept, _update_costs, return
CopilotStreamEnds ==
    /\ call.op = "copilot"
    /\ call.pc = "streaming"
    /\ \E counts \in TokenCounts, costOk \in BOOLEAN :
          LET full_content == Join(call.collected_messages)
              local == ~Truthy(call.usage)
              usage == IF local THEN CalcUsage(config, counts) ELSE call.usage
          IN  /\ sink' = Append(sink, "\n")
              /\ costArgs' = Append(costArgs, usage)
              /\ logs' = logs
                         \o (IF local THEN CalcUsageLogs(config, counts) ELSE <<>>)
                         \o BaseUpdateCostsLogs(config, copilot, usage, costOk)
              /\ call' = [call EXCEPT !.pc = "done", !.usage = usage,
                                      !.result = Returns(full_content)]
    /\ UNCHANGED <<config, supplied, copilot, github, kwargs, acompletionCalls,
                   askCalls, sessions>>

\* the framework sets llm.cost_manager
AttachCostManager ==
    /\ call.pc = "idle"
    /\ copilot.status = "ready"
    /\ copilot.cost_manager = "None"
    /\ copilot' = [copilot EXCEPT !.cost_manager = "CostManager"]
    /\ UNCHANGED <<config, supplied, github, call, kwargs, acompletionCalls,
                   askCalls, sessions, logs, sink, costArgs>>

---------------------------------------------------------------------------
(* GitHubLLM *)

\* The names bound in module github_api when _update_costs runs
GitHubApiGlobals ==
    {"annotations", "os", "asyncio", "Optional", "SydneyClient", "LLMConfig",
     "LLMType", "BaseLLM", "register_provider", "CostManager", "GitHubLLM"}

\* What SydneyClient.ask returns: (text, metadata)
Replies ==
    {<<t, m>> : t \in {"Hello, world! I am a language model.", ""},
                m \in {"None", "suggested responses"}}

Tokens == {"Hel", "lo"}

\* Usage dictionaries a caller hands to _update_costs
UsageDicts == {Usage(5, 2), [prompt_tokens |-> 5]}

\* prompt = messages[-1]["content"]
PromptFirst(messages) == messages[1].content

Prompt(messages) == messages[Len(messages)].content

\* async with SydneyClient(...): __aexit__ runs however the block ends
AExitOnReturn(open, pending) ==
    IF pending.kind = "return" THEN open - 1 ELSE open

AExit(open, pending) == open - 1

\* The registry's constructor for LLMType.GITHUB: GitHubLLM(config)
ConstructGitHub ==
    /\ call.pc = "idle"
    /\ config.api_type = "github"
    /\ github.status = "none"
    /\ github' = [status |-> "ready", cost_manager |-> "None"]
    /\ UNCHANGED <<config, supplied, copilot, call, kwargs, acompletionCalls,
                   askCalls, sessions, logs, sink, costArgs>>

\* the framework sets llm.cost_manager; update_cost of the one it sets may fail
AttachGitHubCostManager ==
    /\ call.pc = "idle"
    /\ github.status = "ready"
    /\ github.cost_manager = "None"
    /\ \E cm \in {"CostManager", "failing CostManager"} :
          github' = [github EXCEPT !.cost_manager = cm]
    /\ UNCHANGED <<config, supplied, copilot, call, kwargs, acompletionCalls,
                   askCalls, sessions, logs, sink, costArgs>>

\* acompletion_text(messages, stream) up to the async with
GitHubCall ==
    /\ call.pc = "idle"
    /\ github.status = "ready"
    /\ \E messages \in MessageSeqs, stream \in BOOLEAN :
          call' = [op |-> "github", pc |-> "enter", stream |-> stream,
                   messages |-> messages, opened |-> 0, response |-> "",
                   tokens |-> <<>>, reply |-> <<>>, pending |-> NoResult,
                   result |-> NoResult]
    /\ UNCHANGED <<config, supplied, copilot, github, kwargs, acompletionCalls,
                   askCalls, sessions, logs, sink, costArgs>>

\* SydneyClient(bing_cookies=...).__aenter__: the session is opened
GitHubEnter ==
    /\ call.op = "github"
    /\ call.pc = "enter"
    /\ sessions' = sessions + 1
    /\ call' = [call EXCEPT !.pc = "body", !.opened = @ + 1]
    /\ UNCHANGED <<config, supplied, copilot, github, kwargs, acompletionCalls,
                   askCalls, logs, sink, costArgs>>

\* prompt = messages[-1]["content"], then sydney.ask / sydney.ask_stream
GitHubPrompt ==
    /\ call.op = "github"
    /\ call.pc = "body"
    /\ IF Len(call.messages) = 0
       THEN /\ call' = [call EXCEPT !.pc = "exit", !.pending = Raises("IndexError")]
            /\ UNCHANGED askCalls
       ELSE /\ askCalls' = Append(askCalls,
                                  [op |-> IF call.stream THEN "ask_stream" ELSE "ask",
                                   prompt |-> Prompt(call.messages)])
            /\ call' = [call EXCEPT !.pc = IF call.stream THEN "streaming"
                                           ELSE "asking"]
    /\ UNCHANGED <<config, supplied, copilot, github, kwargs, acompletionCalls,
                   sessions, logs, sink, costArgs>>

\* response, _ = await sydney.ask(prompt); return response
GitHubAskReturns ==
    /\ call.op = "github"
    /\ call.pc = "asking"
    /\ \E reply \in Replies :
          call' = [call EXCEPT !.pc = "exit", !.reply = reply,
                               !.pending = Returns(reply[1])]
    /\ UNCHANGED <<config, supplied, copilot, github, kwargs, acompletionCalls,
                   askCalls, sessions, logs, sink, costArgs>>

\* sydney.ask, or the token stream, raises
GitHubUpstreamFails ==
    /\ call.op = "github"
    /\ call.pc \in {"asking", "streaming"}
    /\ \E e \in Exceptions :
          call' = [call EXCEPT !.pc = "exit", !.pending = Raises(e)]
    /\ UNCHANGED <<config, supplied, copilot, github, kwargs, acompletionCalls,
                   askCalls, sessions, logs, sink, costArgs>>

\* one turn of "async for token in sydney.ask_stream(prompt)"
GitHubToken ==
    /\ call.op = "github"
    /\ call.pc = "streaming"
    /\ Len(call.tokens) < MaxChunks
    /\ \E token \in Tokens :
          call' = [call EXCEPT !.tokens = Append(@, token),
                               !.response = @ \o token]
    /\ UNCHANGED <<config, supplied, copilot, github, kwargs, acompletionCalls,
                   askCalls, sessions, logs, sink, costArgs>>

\* the token stream is exhausted: return response
GitHubStreamEnds ==
    /\ call.op = "github"
    /\ call.pc = "streaming"
    /\ call' = [call EXCEPT !.pc = "exit", !.pending = Returns(call.response)]
    /\ UNCHANGED <<config, supplied, copilot, github, kwargs, acompletionCalls,
                   askCalls, sessions, logs, sink, costArgs>>

\* leaving the async with block: __aexit__, then the return or the exception
GitHubExit ==
    /\ call.op = "github"
    /\ call.pc = "exit"
    /\ sessions' = AExit(sessions, call.pending)
    /\ call' = [call EXCEPT !.pc = "done", !.result = call.pending]
    /\ UNCHANGED <<config, supplied, copilot, github, kwargs, acompletionCalls,
                   askCalls, logs, sink, costArgs>>

\* _update_costs: whether the try block raises
UpdateCostFails(self, usage) ==
    \/ self.cost_manager = "None"
    \/ ~({"prompt_tokens", "completion_tokens"} \subseteq DOMAIN usage)
    \/ self.cost_manager = "failing CostManager"

\* _update_costs: the except clause evaluates logger.error(...)
UpdateCostsHandler ==
    IF "logger" \in GitHubApiGlobals
    THEN [logs |-> <<[level |-> "error", exc |-> "update_cost"]>>,
          result |-> Returns(None)]
    ELSE [logs |-> <<>>, result |-> Raises("NameError")]

\* _update_costs(usage)
GitHubUpdateCosts ==
    /\ call.pc = "idle"
    /\ github.status = "ready"
    /\ \E usage \in UsageDicts :
          LET failed == config.calc_usage /\ UpdateCostFails(github, usage)
          IN  /\ costArgs' = Append(costArgs, usage)
              /\ logs' = IF failed THEN logs \o UpdateCostsHandler.logs ELSE logs
              /\ call' = [op |-> "update_costs", pc |-> "done",
                          failed |-> failed,
                          result |-> IF failed THEN UpdateCostsHandler.result
                                     ELSE Returns(None)]
    /\ UNCHANGED <<config, supplied, copilot, github, kwargs, acompletionCalls,
                   askCalls, sessions, sink>>

---------------------------------------------------------------------------
(* The two adapters under a framework that awaits one call at a time *)

Init == InitWith(PlainConfigs)

Next ==
    \/ ConstructCopilot
    \/ BuildPayload
    \/ AttachCostManager
    \/ CopilotCall
    \/ CopilotUpstreamFails
    \/ CopilotResponse
    \/ CopilotStreamBegins
    \/ CopilotChunk
    \/ CopilotStreamFails
    \/ CopilotStreamEnds
    \/ ConstructGitHub
    \/ AttachGitHubCostManager
    \/ GitHubCall
    \/ GitHubEnter
    \/ GitHubPrompt
    \/ GitHubAskReturns
    \/ GitHubUpstreamFails
    \/ GitHubToken
    \/ GitHubStreamEnds
    \/ GitHubExit
    \/ GitHubUpdateCosts
    \/ Complete

Spec == Init /\ [][Next]_vars

---------------------------------------------------------------------------
(* GitHubLLM: the one-shot call *)

\* C2: a non-streaming acompletion_text on a non-empty message sequence calls
\* ask exactly once, with the content of the last message, and returns the
\* text component of the pair the client reports.
C2_AskLastMessage ==
    (call.op = "github" /\ ~call.stream /\ Len(call.messages) > 0) =>
        /\ call.pc \in {"enter", "body"} => askCalls = <<>>
        /\ call.pc \in {"asking", "exit", "done"} =>
               askCalls = <<[op |-> "ask",
                             prompt |-> call.messages[Len(call.messages)].content]>>
        /\ (call.pc = "done" /\ call.reply # <<>>) =>
               call.result = [kind |-> "return", value |-> call.reply[1]]

C2_Witness ==
    /\ call.op = "github"
    /\ ~call.stream
    /\ call.pc = "done"
    /\ Len(call.messages) = 2
    /\ call.messages[1].content # call.messages[2].content
    /\ call.reply = <<"Hello, world! I am a language model.", "suggested responses">>
    /\ call.result.kind = "return"

---------------------------------------------------------------------------
(* GitHubLLM: the session *)

\* C6: every acompletion_text call opens exactly one session and has released
\* it when the call completes, however it ends; none stays open afterwards.
C6_SessionReleased ==
    /\ call.pc = "idle" => sessions = 0
    /\ call.op = "github" =>
        /\ call.pc = "enter" => (call.opened = 0 /\ sessions = 0)
        /\ call.pc \in {"body", "asking", "streaming", "exit"} =>
               (call.opened = 1 /\ sessions = 1)
        /\ call.pc = "done" => (call.opened = 1 /\ sessions = 0)

C6_Witness ==
    /\ call.op = "github"
    /\ call.pc = "done"
    /\ call.stream
    /\ Len(call.tokens) > 0
    /\ call.result.kind = "raise"
    /\ call.opened = 1
    /\ sessions = 0

---------------------------------------------------------------------------
(* GitHubLLM: the cost update *)

\* C8: _update_costs never raises; a failing cost update is caught and logged.
C8_UpdateCostsNeverRaises ==
    call.op = "update_costs" =>
        /\ call.result.kind = "return"
        /\ call.failed => Len(logs) > 0

---------------------------------------------------------------------------
(* GitHubCopilotLLM: streaming *)

\* The non-empty incremental content fragments of a chunk sequence, in order
RECURSIVE Fragments(_)
Fragments(chunks) ==
    IF Len(chunks) = 0 THEN <<>>
    ELSE LET c == Head(chunks)
         IN  (IF c.choices # <<>> /\ c.choices[1] # "" THEN <<c.choices[1]>> ELSE <<>>)
             \o Fragments(Tail(chunks))

\* The positions of the chunks that carry non-empty usage information
Carrying(chunks) == {i \in 1..Len(chunks) : Truthy(chunks[i].usage)}

Last(S) == CHOOSE i \in S : \A j \in S : j <= i

\* C3: in a streaming call that completes, when some chunk carries usage the
\* usage handed to the cost update is that of the last such chunk, and the
\* locally computed usage is used only when no chunk carried usage.
C3_ChunkUsageWins ==
    (call.op = "copilot" /\ call.stream /\ call.pc = "done"
        /\ call.result.kind = "return") =>
        IF Carrying(call.chunks) # {}
        THEN costArgs = <<call.chunks[Last(Carrying(call.chunks))].usage>>
        ELSE \E counts \in TokenCounts : costArgs = <<CalcUsage(config, counts)>>

\* C10: in a streaming call the text returned is the concatenation, in
\* arrival order, of the non-empty content fragments of the chunks; each has
\* gone to the live-output sink once, in order, before the next chunk is
\* consumed; other chunks add nothing; the cost update follows exhaustion.
C10_StreamedText ==
    (call.op = "copilot" /\ call.stream) =>
        /\ call.pc = "streaming" =>
               (sink = Fragments(call.chunks) /\ costArgs = <<>>)
        /\ (call.pc = "done" /\ call.result.kind = "raise") =>
               (sink = Fragments(call.chunks) /\ costArgs = <<>>)
        /\ (call.pc = "done" /\ call.result.kind = "return") =>
               /\ call.result.value = Join(Fragments(call.chunks))
               /\ sink = Fragments(call.chunks) \o <<"\n">>
               /\ Len(costArgs) = 1

C10_Witness ==
    /\ call.op = "copilot"
    /\ call.stream
    /\ call.pc = "done"
    /\ Len(call.chunks) = 3
    /\ \E i \in 1..3 : call.chunks[i].choices = <<>>
    /\ call.result = [kind |-> "return", value |-> "Hello"]
    /\ sink = <<"Hel", "lo", "\n">>

---------------------------------------------------------------------------
(* GitHubCopilotLLM: failures *)

\* C4: once litellm has delivered its result, no failure of the usage
\* accounting ends the call in an exception: the response or text is returned.
C4_AccountingNeverRaises ==
    (call.op = "copilot" /\ call.pc = "done" /\ call.upstream = "ok") =>
        call.result.kind = "return"

\* C5: when litellm.acompletion or its chunk stream raises, the exception is
\* logged and reaches the caller unchanged, no text is returned, and
\* acompletion has been called exactly once in the invocation.
C5_UpstreamFailureReraised ==
    call.op = "copilot" =>
        /\ acompletionCalls = 1
        /\ (call.pc = "done" /\ call.upstream # "ok") =>
               /\ call.result = [kind |-> "raise", exc |-> call.upstream]
               /\ logs = <<[level |-> "error", exc |-> call.upstream]>>

C5_Witness ==
    /\ call.op = "copilot"
    /\ call.pc = "done"
    /\ call.stream
    /\ call.upstream = "TimeoutError"
    /\ call.collected_messages = <<"Hel">>
    /\ call.result.kind = "raise"
    /\ acompletionCalls = 1

---------------------------------------------------------------------------
(* The Configuration object *)

\* C9 as claimed: no adapter operation changes a field of the Configuration.
C9_ConfigReadOnly == config = supplied

\* C9: the Configuration is written only by a successful construction of
\* GitHubCopilotLLM from a model without the provider prefix, which sets
\* config.model to the resolved model id and nothing else; a failed
\* construction and every other operation leave every field as it was.
C9_ConfigWrittenByConstructionOnly ==
    [][/\ config' # config =>
            /\ call.pc = "idle"
            /\ copilot'.status = "ready"
            /\ ~StartsWith(config.model, Prefix)
            /\ config' = [config EXCEPT !.model = copilot'.model]
       /\ (copilot'.status = "ready" /\ StartsWith(config.model, Prefix)) =>
            config' = config
       /\ copilot'.status = "ValueError" => config' = config]_vars

C9_Witness ==
    /\ copilot.status = "ready"
    /\ config # supplied
    /\ config = [supplied EXCEPT !.model = Prefix \o supplied.model]
    /\ call.op = "copilot"
    /\ call.pc = "done"

=============================================================================
